---- MODULE Spec2Model ----
(***************************************************************************)
(* The MIDI automation engine of fl_studio_midi_controller.py: the host    *)
(* callbacks OnInit, OnDeinit, OnMidiIn, OnIdle and OnRefresh, the global  *)
(* AutomationState instance `state`, and the control surface (the host's   *)
(* transport, patterns, channels, mixer and ui modules) as an environment  *)
(* whose answers and failures are inputs of every callback; and, of the    *)
(* workflow around it, WorkflowTool.run with its state file (tools.py) and  *)
(* the is_running flag of WorkflowOrchestrator (orchestrator.py).           *)
(*                                                                         *)
(* Real numbers are fixed-point integers: 1.0 is Unit = 254 units, so that *)
(* cc_value / 127.0 and normalized - 0.5 are exact.                        *)
(***************************************************************************)
EXTENDS Integers, Sequences, FiniteSets, TLC

\* ------------------------------------------------------------------------
\* Program constants
\* ------------------------------------------------------------------------
MIDI_CC_MASTER_VOLUME == 1
MIDI_CC_TRACK_VOLUME == 2
MIDI_CC_PAN == 3
MIDI_CC_TEMPO == 4
MIDI_NOTE_PLAY == 60
MIDI_NOTE_STOP == 61
MIDI_NOTE_RECORD == 62
PATTERN_NOTE_START == 36
PATTERN_NOTE_END == 51
\* literals of the handlers
CHANNEL_NOTE_START == 64
CHANNEL_NOTE_END == 79
CC_STANDARD_VOLUME == 7
CC_STANDARD_PAN == 10
CC_SUSTAIN == 64
SUSTAIN_ON == 64
STATUS_NOTE_OFF == 128
STATUS_NOTE_ON == 144
STATUS_CONTROL_CHANGE == 176
STATUS_PROGRAM_CHANGE == 192
CC_SCALE == 127
TEMPO_BASE == 20
TEMPO_SPAN == 280
TEMPO_DEFAULT == 120
\* the largest data byte of a MIDI message ("CC value (0-127)")
DATA_MAX == 127

\* ------------------------------------------------------------------------
\* Bounds of the model
\* ------------------------------------------------------------------------
\* mixer.selectedTrack() answers -1 (none) or a track 0..MaxTrack
MaxTrack == 1
\* status bytes of MIDI channels 0..MaxChannel are delivered
MaxChannel == 1

\* ------------------------------------------------------------------------
\* Fixed-point reals
\* ------------------------------------------------------------------------
Unit == 2 * CC_SCALE
Half == Unit \div 2

\* cc_value / 127.0 (also velocity / 127.0)
normalized(cc_value) == (cc_value * Unit) \div CC_SCALE

\* pan_value over the range -1.0 .. 1.0
pan_value_FullRange(cc_value) == 2 * normalized(cc_value) - Unit

\* normalized - 0.5
pan_value(cc_value) == normalized(cc_value) - Half

\* tempo under an integer division of the controller value by 127
tempo_IntegerDivision(cc_value) ==
    TEMPO_BASE * Unit + (cc_value \div CC_SCALE) * Unit * TEMPO_SPAN

\* 20 + (normalized * 280)
tempo(cc_value) == TEMPO_BASE * Unit + normalized(cc_value) * TEMPO_SPAN

\* f"{x:.1f}": the number of tenths nearest to x (no value of the engine is a tie)
format_1f(x) == (20 * x + Unit) \div (2 * Unit)

\* ------------------------------------------------------------------------
\* AutomationState
\* ------------------------------------------------------------------------
EmptyDict == [k \in {} |-> 0]

\* d[k] = v on a Python dict
DictSet(d, k, v) == [x \in (DOMAIN d) \cup {k} |-> IF x = k THEN v ELSE d[x]]

\* AutomationState.__init__
AutomationState ==
    [ last_mixer_values   |-> EmptyDict,
      last_channel_values |-> EmptyDict,
      recording_enabled   |-> FALSE,
      automation_enabled  |-> TRUE,
      tempo_last          |-> TEMPO_DEFAULT * Unit,
      active_patterns     |-> {} ]

\* AutomationState.reset
reset(st) ==
    [ st EXCEPT !.last_mixer_values = EmptyDict,
                !.last_channel_values = EmptyDict,
                !.recording_enabled = FALSE,
                !.active_patterns = {} ]

\* ------------------------------------------------------------------------
\* The control surface (the host's device, transport, patterns, channels,
\* mixer and ui modules): every call either raises or returns one of the
\* values the surface can answer
\* ------------------------------------------------------------------------
PatternCounts == {0, 6, 16}
ChannelCounts == {0, 16}
SelectedTracks == -1 .. MaxTrack

\* one entry of the log of surface calls: op(args) returned ret, or raised
Returned(op, args, ret) == [op |-> op, args |-> args, ret |-> ret, ok |-> TRUE]
Raised(op, args) == [op |-> op, args |-> args, ret |-> 0, ok |-> FALSE]

\* what a call of op(args) can do: raise, or return one of rets
Call(op, args, rets) == {Raised(op, args)} \cup {Returned(op, args, r) : r \in rets}

\* the attribute assignment patterns.currentPattern = index (cannot raise)
SelectPattern(index) == Returned("patterns.currentPattern=", <<index>>, 0)

\* the outcome of a handler: the automation state, the pattern attribute, the
\* surface calls it made in order, and whether an exception left the handler
Outcome(st, cp, calls, raised) ==
    [state |-> st, currentPattern |-> cp, calls |-> calls, raised |-> raised]

\* ------------------------------------------------------------------------
\* Note handlers
\* ------------------------------------------------------------------------
\* note 60: transport.start(), outside any try
PlayCommand(st, cp) ==
    { Outcome(st, cp, <<c>>, ~c.ok) : c \in Call("transport.start", <<>>, {0}) }

\* StopCommand restarting the transport after stopping it
StopCommand_Restart(st, cp) ==
    UNION { IF ~c1.ok
            THEN { Outcome(st, cp, <<c1>>, TRUE) }
            ELSE { Outcome(st, cp, <<c1, c2>>, ~c2.ok)
                   : c2 \in Call("transport.start", <<>>, {0}) }
          : c1 \in Call("transport.stop", <<>>, {0}) }

\* note 61: transport.stop(), outside any try
StopCommand(st, cp) ==
    { Outcome(st, cp, <<c>>, ~c.ok) : c \in Call("transport.stop", <<>>, {0}) }

\* RecordToggle keeping a record state: recording_enabled is flipped
RecordToggle_KeepsRecordState(st, cp) ==
    UNION { IF ~c1.ok
            THEN { Outcome(st, cp, <<c1>>, TRUE) }
            ELSE { IF c2.ok
                   THEN Outcome([st EXCEPT !.recording_enabled = ~@], cp, <<c1, c2>>, FALSE)
                   ELSE Outcome(st, cp, <<c1, c2>>, TRUE)
                 : c2 \in Call("transport.start", <<>>, {0}) }
          : c1 \in Call("transport.getPos", <<0>>, {0}) }

\* note 62: transport.getPos(0), then transport.start(), outside any try
RecordToggle(st, cp) ==
    UNION { IF ~c1.ok
            THEN { Outcome(st, cp, <<c1>>, TRUE) }
            ELSE { Outcome(st, cp, <<c1, c2>>, ~c2.ok)
                   : c2 \in Call("transport.start", <<>>, {0}) }
          : c1 \in Call("transport.getPos", <<0>>, {0}) }

\* TriggerPattern recording the pattern only once it has been selected
TriggerPattern_AddOnSelect(st, cp, note) ==
    LET pattern_index == note - PATTERN_NOTE_START
        st1 == [st EXCEPT !.active_patterns = @ \cup {pattern_index}]
    IN  { IF c.ok /\ pattern_index < c.ret
          THEN Outcome(st1, pattern_index, <<c, SelectPattern(pattern_index)>>, FALSE)
          ELSE Outcome(st, cp, <<c>>, FALSE)
        : c \in Call("patterns.patternCount", <<>>, PatternCounts) }

\* TriggerPattern with the range check off by one (<= for <)
TriggerPattern_OffByOne(st, cp, note) ==
    LET pattern_index == note - PATTERN_NOTE_START
        st1 == [st EXCEPT !.active_patterns = @ \cup {pattern_index}]
    IN  { IF c.ok /\ pattern_index <= c.ret
          THEN Outcome(st1, pattern_index, <<c, SelectPattern(pattern_index)>>, FALSE)
          ELSE Outcome(st1, cp, <<c>>, FALSE)
        : c \in Call("patterns.patternCount", <<>>, PatternCounts) }

\* notes 36..51: active_patterns.add(pattern_index), then
\* try: if pattern_index < patterns.patternCount(): select; except: log
TriggerPattern(st, cp, note) ==
    LET pattern_index == note - PATTERN_NOTE_START
        st1 == [st EXCEPT !.active_patterns = @ \cup {pattern_index}]
    IN  { IF c.ok /\ pattern_index < c.ret
          THEN Outcome(st1, pattern_index, <<c, SelectPattern(pattern_index)>>, FALSE)
          ELSE Outcome(st1, cp, <<c>>, FALSE)
        : c \in Call("patterns.patternCount", <<>>, PatternCounts) }

\* ChannelVolume numbering the channels from one
ChannelVolume_OneBased(st, cp, note, velocity) ==
    LET channel_index == note - CHANNEL_NOTE_START + 1
        volume == normalized(velocity)
    IN  UNION { IF ~c1.ok
                THEN { Outcome(st, cp, <<c1>>, TRUE) }
                ELSE IF channel_index < c1.ret
                THEN { Outcome(st, cp, <<c1, c2>>, ~c2.ok)
                       : c2 \in Call("channels.setChannelVolume",
                                     <<channel_index, volume>>, {0}) }
                ELSE { Outcome(st, cp, <<c1>>, FALSE) }
              : c1 \in Call("channels.channelCount", <<>>, ChannelCounts) }

\* notes 64..79: if channel_index < channels.channelCount(): setChannelVolume,
\* outside any try
ChannelVolume(st, cp, note, velocity) ==
    LET channel_index == note - CHANNEL_NOTE_START
        volume == normalized(velocity)
    IN  UNION { IF ~c1.ok
                THEN { Outcome(st, cp, <<c1>>, TRUE) }
                ELSE IF channel_index < c1.ret
                THEN { Outcome(st, cp, <<c1, c2>>, ~c2.ok)
                       : c2 \in Call("channels.setChannelVolume",
                                     <<channel_index, volume>>, {0}) }
                ELSE { Outcome(st, cp, <<c1>>, FALSE) }
              : c1 \in Call("channels.channelCount", <<>>, ChannelCounts) }

HandleNoteOn(st, cp, note, velocity) ==
    IF note = MIDI_NOTE_PLAY THEN PlayCommand(st, cp)
    ELSE IF note = MIDI_NOTE_STOP THEN StopCommand(st, cp)
    ELSE IF note = MIDI_NOTE_RECORD THEN RecordToggle(st, cp)
    ELSE IF PATTERN_NOTE_START <= note /\ note <= PATTERN_NOTE_END
    THEN TriggerPattern(st, cp, note)
    ELSE IF CHANNEL_NOTE_START <= note /\ note <= CHANNEL_NOTE_END
    THEN ChannelVolume(st, cp, note, velocity)
    ELSE { Outcome(st, cp, <<>>, FALSE) }

\* HandleNoteOff discarding the note number instead of the pattern index
HandleNoteOff_DiscardsNote(st, cp, note) ==
    IF PATTERN_NOTE_START <= note /\ note <= PATTERN_NOTE_END
    THEN { Outcome([st EXCEPT !.active_patterns = @ \ {note}], cp, <<>>, FALSE) }
    ELSE { Outcome(st, cp, <<>>, FALSE) }

\* HandleNoteOff clearing the pattern only while automation is enabled
HandleNoteOff_WhenEnabled(st, cp, note) ==
    IF PATTERN_NOTE_START <= note /\ note <= PATTERN_NOTE_END /\ st.automation_enabled
    THEN LET pattern_index == note - PATTERN_NOTE_START
         IN  { Outcome([st EXCEPT !.active_patterns = @ \ {pattern_index}],
                       cp, <<>>, FALSE) }
    ELSE { Outcome(st, cp, <<>>, FALSE) }

HandleNoteOff(st, cp, note) ==
    IF PATTERN_NOTE_START <= note /\ note <= PATTERN_NOTE_END
    THEN LET pattern_index == note - PATTERN_NOTE_START
         IN  { Outcome([st EXCEPT !.active_patterns = @ \ {pattern_index}],
                       cp, <<>>, FALSE) }
    ELSE { Outcome(st, cp, <<>>, FALSE) }

\* ------------------------------------------------------------------------
\* Control change handler
\* ------------------------------------------------------------------------
\* MasterVolume caching the volume before the surface is called
MasterVolume_CacheFirst(st, cp, cc_value) ==
    { Outcome([st EXCEPT !.last_mixer_values = DictSet(@, 0, normalized(cc_value))],
              cp, <<c>>, FALSE)
    : c \in Call("mixer.setTrackVolume", <<0, normalized(cc_value)>>, {0}) }

\* MasterVolume acting only while automation is enabled
MasterVolume_WhenEnabled(st, cp, cc_value) ==
    IF st.automation_enabled
    THEN { IF c.ok
           THEN Outcome([st EXCEPT !.last_mixer_values =
                             DictSet(@, 0, normalized(cc_value))], cp, <<c>>, FALSE)
           ELSE Outcome(st, cp, <<c>>, FALSE)
         : c \in Call("mixer.setTrackVolume", <<0, normalized(cc_value)>>, {0}) }
    ELSE { Outcome(st, cp, <<>>, FALSE) }

\* CC 1: try: mixer.setTrackVolume(0, normalized); last_mixer_values[0] = ...
MasterVolume(st, cp, cc_value) ==
    { IF c.ok
      THEN Outcome([st EXCEPT !.last_mixer_values = DictSet(@, 0, normalized(cc_value))],
                   cp, <<c>>, FALSE)
      ELSE Outcome(st, cp, <<c>>, FALSE)
    : c \in Call("mixer.setTrackVolume", <<0, normalized(cc_value)>>, {0}) }

\* TrackVolume without the test of the selected track (track >= 0)
TrackVolume_NoSelectionCheck(st, cp, cc_value) ==
    UNION { IF c1.ok
            THEN { IF c2.ok
                   THEN Outcome([st EXCEPT !.last_mixer_values =
                                     DictSet(@, c1.ret, normalized(cc_value))],
                                cp, <<c1, c2>>, FALSE)
                   ELSE Outcome(st, cp, <<c1, c2>>, FALSE)
                 : c2 \in Call("mixer.setTrackVolume",
                               <<c1.ret, normalized(cc_value)>>, {0}) }
            ELSE { Outcome(st, cp, <<c1>>, FALSE) }
          : c1 \in Call("mixer.selectedTrack", <<>>, SelectedTracks) }

\* CC 2: try: track = mixer.selectedTrack(); if track >= 0: set and cache
TrackVolume(st, cp, cc_value) ==
    UNION { IF c1.ok /\ c1.ret >= 0
            THEN { IF c2.ok
                   THEN Outcome([st EXCEPT !.last_mixer_values =
                                     DictSet(@, c1.ret, normalized(cc_value))],
                                cp, <<c1, c2>>, FALSE)
                   ELSE Outcome(st, cp, <<c1, c2>>, FALSE)
                 : c2 \in Call("mixer.setTrackVolume",
                               <<c1.ret, normalized(cc_value)>>, {0}) }
            ELSE { Outcome(st, cp, <<c1>>, FALSE) }
          : c1 \in Call("mixer.selectedTrack", <<>>, SelectedTracks) }

\* CC 3: try: pan_value = normalized - 0.5; track = mixer.selectedTrack(); ...
TrackPan(st, cp, cc_value) ==
    UNION { IF c1.ok /\ c1.ret >= 0
            THEN { Outcome(st, cp, <<c1, c2>>, FALSE)
                 : c2 \in Call("mixer.setTrackPan",
                               <<c1.ret, pan_value(cc_value)>>, {0}) }
            ELSE { Outcome(st, cp, <<c1>>, FALSE) }
          : c1 \in Call("mixer.selectedTrack", <<>>, SelectedTracks) }

\* CC 4: try: tempo = 20 + normalized * 280;
\* ui.setHintMsg(f"Tempo: {tempo:.1f} BPM"); tempo_last = tempo
TempoHint(st, cp, cc_value) ==
    { IF c.ok
      THEN Outcome([st EXCEPT !.tempo_last = tempo(cc_value)], cp, <<c>>, FALSE)
      ELSE Outcome(st, cp, <<c>>, FALSE)
    : c \in Call("ui.setHintMsg", <<format_1f(tempo(cc_value))>>, {0}) }

\* StandardVolume scaling the controller value by 128 instead of 127
StandardVolume_Scale128(st, cp, cc_value) ==
    LET volume == (cc_value * Unit) \div (CC_SCALE + 1)
    IN  UNION { IF c1.ok /\ c1.ret >= 0
                THEN { IF c2.ok
                       THEN Outcome([st EXCEPT !.last_mixer_values =
                                         DictSet(@, c1.ret, volume)],
                                    cp, <<c1, c2>>, FALSE)
                       ELSE Outcome(st, cp, <<c1, c2>>, FALSE)
                     : c2 \in Call("mixer.setTrackVolume", <<c1.ret, volume>>, {0}) }
                ELSE { Outcome(st, cp, <<c1>>, FALSE) }
              : c1 \in Call("mixer.selectedTrack", <<>>, SelectedTracks) }

\* CC 7: the same statements as CC 2, written a second time in the source
StandardVolume(st, cp, cc_value) ==
    UNION { IF c1.ok /\ c1.ret >= 0
            THEN { IF c2.ok
                   THEN Outcome([st EXCEPT !.last_mixer_values =
                                     DictSet(@, c1.ret, normalized(cc_value))],
                                cp, <<c1, c2>>, FALSE)
                   ELSE Outcome(st, cp, <<c1, c2>>, FALSE)
                 : c2 \in Call("mixer.setTrackVolume",
                               <<c1.ret, normalized(cc_value)>>, {0}) }
            ELSE { Outcome(st, cp, <<c1>>, FALSE) }
          : c1 \in Call("mixer.selectedTrack", <<>>, SelectedTracks) }

\* StandardPan panning the master track instead of the selected one
StandardPan_Master(st, cp, cc_value) ==
    { Outcome(st, cp, <<c>>, FALSE)
    : c \in Call("mixer.setTrackPan", <<0, pan_value(cc_value)>>, {0}) }

\* CC 10: the same statements as CC 3, written a second time in the source
StandardPan(st, cp, cc_value) ==
    UNION { IF c1.ok /\ c1.ret >= 0
            THEN { Outcome(st, cp, <<c1, c2>>, FALSE)
                 : c2 \in Call("mixer.setTrackPan",
                               <<c1.ret, pan_value(cc_value)>>, {0}) }
            ELSE { Outcome(st, cp, <<c1>>, FALSE) }
          : c1 \in Call("mixer.selectedTrack", <<>>, SelectedTracks) }

\* EnableAutomation with the threshold excluded (> for >=)
EnableAutomation_Exclusive(st, cp, cc_value) ==
    { Outcome([st EXCEPT !.automation_enabled = (cc_value > SUSTAIN_ON)],
              cp, <<>>, FALSE) }

\* EnableAutomation as a toggle: a value from 64 up flips the flag
EnableAutomation_Toggle(st, cp, cc_value) ==
    { Outcome([st EXCEPT !.automation_enabled =
                             IF cc_value >= SUSTAIN_ON THEN ~@ ELSE @],
              cp, <<>>, FALSE) }

\* CC 64: state.automation_enabled = cc_value >= 64
EnableAutomation(st, cp, cc_value) ==
    { Outcome([st EXCEPT !.automation_enabled = (cc_value >= SUSTAIN_ON)],
              cp, <<>>, FALSE) }

\* HandleControlChange taking controller 11 (expression) for a track volume too
HandleControlChange_Expression(st, cp, cc_number, cc_value) ==
    IF cc_number = MIDI_CC_MASTER_VOLUME THEN MasterVolume(st, cp, cc_value)
    ELSE IF cc_number = MIDI_CC_TRACK_VOLUME \/ cc_number = 11
    THEN TrackVolume(st, cp, cc_value)
    ELSE IF cc_number = MIDI_CC_PAN THEN TrackPan(st, cp, cc_value)
    ELSE IF cc_number = MIDI_CC_TEMPO THEN TempoHint(st, cp, cc_value)
    ELSE IF cc_number = CC_STANDARD_VOLUME THEN StandardVolume(st, cp, cc_value)
    ELSE IF cc_number = CC_STANDARD_PAN THEN StandardPan(st, cp, cc_value)
    ELSE IF cc_number = CC_SUSTAIN THEN EnableAutomation(st, cp, cc_value)
    ELSE { Outcome(st, cp, <<>>, FALSE) }

HandleControlChange(st, cp, cc_number, cc_value) ==
    IF cc_number = MIDI_CC_MASTER_VOLUME THEN MasterVolume(st, cp, cc_value)
    ELSE IF cc_number = MIDI_CC_TRACK_VOLUME THEN TrackVolume(st, cp, cc_value)
    ELSE IF cc_number = MIDI_CC_PAN THEN TrackPan(st, cp, cc_value)
    ELSE IF cc_number = MIDI_CC_TEMPO THEN TempoHint(st, cp, cc_value)
    ELSE IF cc_number = CC_STANDARD_VOLUME THEN StandardVolume(st, cp, cc_value)
    ELSE IF cc_number = CC_STANDARD_PAN THEN StandardPan(st, cp, cc_value)
    ELSE IF cc_number = CC_SUSTAIN THEN EnableAutomation(st, cp, cc_value)
    ELSE { Outcome(st, cp, <<>>, FALSE) }

\* ------------------------------------------------------------------------
\* Program change handler
\* ------------------------------------------------------------------------
\* HandleProgramChange with the range check off by one (<= for <)
HandleProgramChange_OffByOne(st, cp, program) ==
    { IF c.ok /\ program <= c.ret
      THEN Outcome(st, program, <<c, SelectPattern(program)>>, FALSE)
      ELSE Outcome(st, cp, <<c>>, FALSE)
    : c \in Call("patterns.patternCount", <<>>, PatternCounts) }

HandleProgramChange(st, cp, program) ==
    { IF c.ok /\ program < c.ret
      THEN Outcome(st, program, <<c, SelectPattern(program)>>, FALSE)
      ELSE Outcome(st, cp, <<c>>, FALSE)
    : c \in Call("patterns.patternCount", <<>>, PatternCounts) }

\* ------------------------------------------------------------------------
\* The message callback
\* ------------------------------------------------------------------------
\* Handler taking every 0x90 for a note-on, whatever its velocity
Handler_IgnoresVelocity(event) ==
    IF event.status = STATUS_NOTE_ON \/ event.status = STATUS_NOTE_OFF
    THEN IF event.status = STATUS_NOTE_ON
         THEN "HandleNoteOn" ELSE "HandleNoteOff"
    ELSE IF event.status = STATUS_CONTROL_CHANGE THEN "HandleControlChange"
    ELSE IF event.status = STATUS_PROGRAM_CHANGE THEN "HandleProgramChange"
    ELSE "none"

\* Handler taking every status from 0xC0 up for a program change
Handler_OpenEndedProgramChange(event) ==
    IF event.status = STATUS_NOTE_ON \/ event.status = STATUS_NOTE_OFF
    THEN IF event.status = STATUS_NOTE_ON /\ event.data2 > 0
         THEN "HandleNoteOn" ELSE "HandleNoteOff"
    ELSE IF event.status = STATUS_CONTROL_CHANGE THEN "HandleControlChange"
    ELSE IF event.status >= STATUS_PROGRAM_CHANGE THEN "HandleProgramChange"
    ELSE "none"

\* the handler OnMidiIn gives the event to
Handler(event) ==
    IF event.status = STATUS_NOTE_ON \/ event.status = STATUS_NOTE_OFF
    THEN IF event.status = STATUS_NOTE_ON /\ event.data2 > 0
         THEN "HandleNoteOn" ELSE "HandleNoteOff"
    ELSE IF event.status = STATUS_CONTROL_CHANGE THEN "HandleControlChange"
    ELSE IF event.status = STATUS_PROGRAM_CHANGE THEN "HandleProgramChange"
    ELSE "none"

OnMidiIn(st, cp, event) ==
    LET handler == Handler(event)
    IN  IF handler = "HandleNoteOn"
        THEN HandleNoteOn(st, cp, event.data1, event.data2)
        ELSE IF handler = "HandleNoteOff"
        THEN HandleNoteOff(st, cp, event.data1)
        ELSE IF handler = "HandleControlChange"
        THEN HandleControlChange(st, cp, event.data1, event.data2)
        ELSE IF handler = "HandleProgramChange"
        THEN HandleProgramChange(st, cp, event.data1)
        ELSE { Outcome(st, cp, <<>>, FALSE) }

\* ------------------------------------------------------------------------
\* Lifecycle and feedback callbacks
\* ------------------------------------------------------------------------
\* device.setHardware(...), then the two counts read for the log; no try
OnInit(st, cp) ==
    UNION { IF ~c1.ok
            THEN { Outcome(st, cp, <<c1>>, TRUE) }
            ELSE UNION { IF ~c2.ok
                         THEN { Outcome(st, cp, <<c1, c2>>, TRUE) }
                         ELSE { Outcome(st, cp, <<c1, c2, c3>>, ~c3.ok)
                                : c3 \in Call("channels.channelCount", <<>>, ChannelCounts) }
                       : c2 \in Call("mixer.trackCount", <<>>, {MaxTrack + 1}) }
          : c1 \in Call("device.setHardware", <<>>, {0}) }

OnDeinit(st, cp) == { Outcome(reset(st), cp, <<>>, FALSE) }

OnIdle(st, cp) == { Outcome(st, cp, <<>>, FALSE) }

\* OnRefresh keeping the master volume it has read in the volume cache
OnRefresh_CachesMaster(st, cp) ==
    { IF c1.ok
      THEN Outcome([st EXCEPT !.last_mixer_values = DictSet(@, 0, c1.ret)],
                   cp, <<c1>>, FALSE)
      ELSE Outcome(st, cp, <<c1>>, FALSE)
    : c1 \in Call("mixer.getTrackVolume", <<0>>, {Unit}) }

\* OnRefresh without its try: a failing read leaves the callback
OnRefresh_Unguarded(st, cp) ==
    UNION { IF ~c1.ok
            THEN { Outcome(st, cp, <<c1>>, TRUE) }
            ELSE { Outcome(st, cp, <<c1, c2>>, ~c2.ok)
                   : c2 \in Call("mixer.selectedTrack", <<>>, {-1}) }
          : c1 \in Call("mixer.getTrackVolume", <<0>>, {Unit}) }

\* try: master volume, selected track, its volume and pan; except: pass
OnRefresh(st, cp) ==
    UNION { IF ~c1.ok
            THEN { Outcome(st, cp, <<c1>>, FALSE) }
            ELSE UNION { IF c2.ok /\ c2.ret >= 0
                         THEN UNION { IF ~c3.ok
                                      THEN { Outcome(st, cp, <<c1, c2, c3>>, FALSE) }
                                      ELSE { Outcome(st, cp, <<c1, c2, c3, c4>>, FALSE)
                                             : c4 \in Call("mixer.getTrackPan", <<c2.ret>>, {0}) }
                                    : c3 \in Call("mixer.getTrackVolume", <<c2.ret>>, {Unit}) }
                         ELSE { Outcome(st, cp, <<c1, c2>>, FALSE) }
                       : c2 \in Call("mixer.selectedTrack", <<>>, SelectedTracks) }
          : c1 \in Call("mixer.getTrackVolume", <<0>>, {Unit}) }

\* ------------------------------------------------------------------------
\* The messages the host delivers
\* ------------------------------------------------------------------------
Channels == 0 .. MaxChannel
Notes ==
    { PATTERN_NOTE_START, PATTERN_NOTE_END, PATTERN_NOTE_END + 1,
      MIDI_NOTE_PLAY, MIDI_NOTE_STOP, MIDI_NOTE_RECORD,
      CHANNEL_NOTE_START, CHANNEL_NOTE_END + 1 }
Velocities == {0, 100}
Controllers ==
    { MIDI_CC_MASTER_VOLUME, MIDI_CC_TRACK_VOLUME, MIDI_CC_PAN, MIDI_CC_TEMPO,
      CC_STANDARD_VOLUME, CC_STANDARD_PAN, CC_SUSTAIN, 5 }
\* controller values, 200 being a data byte above 127
Values == {0, CC_SCALE, 200}
\* the values on both sides of the threshold of controller 64
SustainValues == {SUSTAIN_ON - 1, SUSTAIN_ON}
Programs == {0, 5, 127}
KnownStatus ==
    { STATUS_NOTE_OFF, STATUS_NOTE_ON, STATUS_CONTROL_CHANGE, STATUS_PROGRAM_CHANGE }
\* 0xA0, 0xD0, 0xE0, 0xF0 and two bytes below 0x80
UnknownStatus == {160, 208, 224, 240, 127, 0}

Event(status, data1, data2) == [status |-> status, data1 |-> data1, data2 |-> data2]
NoEvent == Event(-1, 0, 0)

Messages ==
    { Event(STATUS_NOTE_ON, n, v) : n \in Notes, v \in Velocities }
    \cup { Event(STATUS_NOTE_OFF, n, v) : n \in Notes, v \in Velocities \ {0} }
    \cup { Event(STATUS_CONTROL_CHANGE, c, v) : c \in Controllers \ {CC_SUSTAIN}, v \in Values }
    \cup { Event(STATUS_CONTROL_CHANGE, CC_SUSTAIN, v) : v \in SustainValues }
    \cup { Event(STATUS_PROGRAM_CHANGE, p, 0) : p \in Programs }
    \cup { Event(s + ch, d, CC_SCALE) : s \in KnownStatus, ch \in Channels \ {0},
                                        d \in {MIDI_CC_MASTER_VOLUME, PATTERN_NOTE_START} }
    \cup { Event(s, PATTERN_NOTE_START, CC_SCALE) : s \in UnknownStatus }

\* ------------------------------------------------------------------------
\* WorkflowTool (tools.py): the state file output/.workflow_state.json is
\* <<>> while it does not exist and <<dict>> once a dict has been dumped
\* into it
\* ------------------------------------------------------------------------
\* the strings given to WorkflowTool.run: the five actions, an action the
\* tool does not know, a known action in capitals, an object without
\* "action", a JSON array, and text that is no JSON
ActionJsons ==
    { "{\"action\": \"start\"}", "{\"action\": \"stop\"}",
      "{\"action\": \"pause\"}", "{\"action\": \"resume\"}",
      "{\"action\": \"status\"}", "{\"action\": \"restart\"}",
      "{\"action\": \"STOP\"}", "{}", "[\"start\"]", "start" }

\* json.loads(action_json) and action_data.get("action") on these strings:
\* ok is false when json.loads raises, object is false when the value has no
\* .get, action is "None" when the object has no "action"
json_loads(action_json) ==
    CASE action_json = "{\"action\": \"start\"}"
            -> [ok |-> TRUE, object |-> TRUE, action |-> "start"]
      [] action_json = "{\"action\": \"stop\"}"
            -> [ok |-> TRUE, object |-> TRUE, action |-> "stop"]
      [] action_json = "{\"action\": \"pause\"}"
            -> [ok |-> TRUE, object |-> TRUE, action |-> "pause"]
      [] action_json = "{\"action\": \"resume\"}"
            -> [ok |-> TRUE, object |-> TRUE, action |-> "resume"]
      [] action_json = "{\"action\": \"status\"}"
            -> [ok |-> TRUE, object |-> TRUE, action |-> "status"]
      [] action_json = "{\"action\": \"restart\"}"
            -> [ok |-> TRUE, object |-> TRUE, action |-> "restart"]
      [] action_json = "{\"action\": \"STOP\"}"
            -> [ok |-> TRUE, object |-> TRUE, action |-> "STOP"]
      [] action_json = "{}"
            -> [ok |-> TRUE, object |-> TRUE, action |-> "None"]
      [] action_json = "[\"start\"]"
            -> [ok |-> TRUE, object |-> FALSE, action |-> "None"]
      [] OTHER
            -> [ok |-> FALSE, object |-> FALSE, action |-> "None"]

WorkflowState(status, message) == [status |-> status, message |-> message]
NoState == WorkflowState("", "")

\* WorkflowTool._load_state
_load_state(file) ==
    IF file # <<>>
    THEN file[1]
    ELSE WorkflowState("idle", "No workflow running")

\* WorkflowTool._save_state
_save_state(st) == <<st>>

\* what run leaves and returns: the file, and the dict it dumps as its result
ToolOutcome(file, success, st, error) ==
    [file |-> file, result |-> [success |-> success, state |-> st, error |-> error]]

\* run with resume leaving the status it finds
run_ResumeKeepsStatus(file, action_json) ==
    LET action_data == json_loads(action_json)
        action == action_data.action
        loaded == _load_state(file)
        st == IF action = "start" THEN WorkflowState("running", "Workflow started")
              ELSE IF action = "stop" THEN WorkflowState("stopped", "Workflow stopped")
              ELSE IF action = "pause" THEN WorkflowState("paused", "Workflow paused")
              ELSE IF action = "resume"
              THEN WorkflowState(loaded.status, "Workflow resumed")
              ELSE loaded
    IN  IF ~action_data.ok \/ ~action_data.object
        THEN { ToolOutcome(file, FALSE, NoState, <<"Exception">>) }
        ELSE IF action \in {"start", "stop", "pause", "resume", "status"}
        THEN { ToolOutcome(_save_state(st), TRUE, st, <<>>) }
        ELSE { ToolOutcome(file, FALSE, NoState, <<"Unknown action: ", action>>) }

\* WorkflowTool.run: try: json.loads, .get("action"), _load_state, the
\* if/elif chain, _save_state, success; except Exception: error. The two
\* open() calls may raise OSError, which leaves the file as it is
run(file, action_json) ==
    LET action_data == json_loads(action_json)
        action == action_data.action
        loaded == _load_state(file)
        st == IF action = "start" THEN WorkflowState("running", "Workflow started")
              ELSE IF action = "stop" THEN WorkflowState("stopped", "Workflow stopped")
              ELSE IF action = "pause" THEN WorkflowState("paused", "Workflow paused")
              ELSE IF action = "resume" THEN WorkflowState("running", "Workflow resumed")
              ELSE loaded
    IN  IF ~action_data.ok
        THEN { ToolOutcome(file, FALSE, NoState, <<"JSONDecodeError">>) }
        ELSE IF ~action_data.object
        THEN { ToolOutcome(file, FALSE, NoState, <<"AttributeError">>) }
        ELSE (IF file # <<>>
              THEN { ToolOutcome(file, FALSE, NoState, <<"OSError">>) }
              ELSE {})
             \cup
             (IF action \in {"start", "stop", "pause", "resume", "status"}
              THEN { ToolOutcome(file, FALSE, NoState, <<"OSError">>),
                     ToolOutcome(_save_state(st), TRUE, st, <<>>) }
              ELSE { ToolOutcome(file, FALSE, NoState, <<"Unknown action: ", action>>) })

\* ------------------------------------------------------------------------
\* State
\* ------------------------------------------------------------------------
VARIABLES
    state,           \* the global AutomationState instance
    currentPattern,  \* the attribute patterns.currentPattern, -1 until assigned
    phase,           \* "loaded" (module imported), "running", "unloaded"
    delivered,       \* number of message and tick callbacks so far
    callback,        \* the callback that ran last
    event,           \* the message it was given (NoEvent for the others)
    calls,           \* the surface calls it made, in order
    raised,          \* whether an exception left it
    held,            \* pattern notes given to HandleNoteOn and not to HandleNoteOff since
    state_file,      \* WorkflowTool: output/.workflow_state.json
    action_json,     \* the string WorkflowTool.run was given last
    tool_result,     \* the dict it returned
    applied,         \* the last of start, stop, pause, resume it returned success for
    is_running,      \* WorkflowOrchestrator.is_running
    pc,              \* where each start / start_async call of the orchestrator is
    stop_result,     \* "success" of the dict the last stop() returned
    operation        \* the workflow operation that ran last

engineVars ==
    <<state, currentPattern, phase, delivered, callback, event, calls, raised, held>>
workflowVars ==
    <<state_file, action_json, tool_result, applied, is_running, pc, stop_result, operation>>
vars == <<engineVars, workflowVars>>

\* start / start_async calls made on one orchestrator
MaxCalls == 2
OrchestratorCalls == 1 .. MaxCalls

\* no workflow state file, a new WorkflowOrchestrator, nothing called yet
InitWorkflow ==
    /\ state_file = <<>>
    /\ action_json = ""
    /\ tool_result = [success |-> FALSE, state |-> NoState, error |-> <<>>]
    /\ applied = "none"
    /\ is_running = FALSE
    /\ pc = [c \in OrchestratorCalls |-> "ready"]
    /\ stop_result = "none"
    /\ operation = "none"

\* number of message and tick callbacks of one run
MaxCallbacks == 3

Init ==
    /\ state = AutomationState
    /\ currentPattern = -1
    /\ phase = "loaded"
    /\ delivered = 0
    /\ callback = "none"
    /\ event = NoEvent
    /\ calls = <<>>
    /\ raised = FALSE
    /\ held = {}
    /\ InitWorkflow

\* what a callback leaves behind; it has no part in the workflow
Ran(name, ev, out) ==
    /\ state' = out.state
    /\ currentPattern' = out.currentPattern
    /\ calls' = out.calls
    /\ raised' = out.raised
    /\ callback' = name
    /\ event' = ev
    /\ UNCHANGED workflowVars

InPatternRange(note) == PATTERN_NOTE_START <= note /\ note <= PATTERN_NOTE_END

HostInit ==
    /\ phase \in {"loaded", "unloaded"}
    /\ \E out \in OnInit(state, currentPattern) : Ran("OnInit", NoEvent, out)
    /\ phase' = "running"
    /\ UNCHANGED <<delivered, held>>

HostDeinit ==
    /\ phase = "running"
    /\ \E out \in OnDeinit(state, currentPattern) : Ran("OnDeinit", NoEvent, out)
    /\ phase' = "unloaded"
    /\ held' = {}
    /\ UNCHANGED delivered

\* HostMidiIn with a callback that gives up once an earlier call of it has
\* raised: the message is taken and nothing is dispatched
HostMidiIn_StopsAfterRaise ==
    /\ phase = "running"
    /\ delivered < MaxCallbacks
    /\ \E ev \in Messages :
         /\ \E out \in (IF callback = "OnMidiIn" /\ raised
                        THEN { Outcome(state, currentPattern, <<>>, FALSE) }
                        ELSE OnMidiIn(state, currentPattern, ev)) :
                Ran("OnMidiIn", ev, out)
         /\ held' = IF Handler(ev) = "HandleNoteOn" /\ InPatternRange(ev.data1)
                    THEN held \cup {ev.data1}
                    ELSE IF Handler(ev) = "HandleNoteOff"
                    THEN held \ {ev.data1}
                    ELSE held
    /\ delivered' = delivered + 1
    /\ UNCHANGED phase

HostMidiIn ==
    /\ phase = "running"
    /\ delivered < MaxCallbacks
    /\ \E ev \in Messages :
         /\ \E out \in OnMidiIn(state, currentPattern, ev) : Ran("OnMidiIn", ev, out)
         /\ held' = IF Handler(ev) = "HandleNoteOn" /\ InPatternRange(ev.data1)
                    THEN held \cup {ev.data1}
                    ELSE IF Handler(ev) = "HandleNoteOff"
                    THEN held \ {ev.data1}
                    ELSE held
    /\ delivered' = delivered + 1
    /\ UNCHANGED phase

HostIdle ==
    /\ phase = "running"
    /\ delivered < MaxCallbacks
    /\ \E out \in OnIdle(state, currentPattern) : Ran("OnIdle", NoEvent, out)
    /\ delivered' = delivered + 1
    /\ UNCHANGED <<phase, held>>

HostRefresh ==
    /\ phase = "running"
    /\ delivered < MaxCallbacks
    /\ \E out \in OnRefresh(state, currentPattern) : Ran("OnRefresh", NoEvent, out)
    /\ delivered' = delivered + 1
    /\ UNCHANGED <<phase, held>>

Next == HostInit \/ HostDeinit \/ HostMidiIn \/ HostIdle \/ HostRefresh

Spec == Init /\ [][Next]_vars

\* ------------------------------------------------------------------------
\* One message of the whole data-byte range, delivered to a running engine
\* ------------------------------------------------------------------------
\* automation states of a running engine: automation on or off, no pattern or
\* the first and the last pattern active, no cached volume or the master's
Situations ==
    { [AutomationState EXCEPT !.automation_enabled = e,
                              !.active_patterns = a,
                              !.last_mixer_values = m]
      : e \in BOOLEAN,
        a \in { {}, {0, PATTERN_NOTE_END - PATTERN_NOTE_START} },
        m \in { EmptyDict, DictSet(EmptyDict, 0, Unit) } }

RangeMessages ==
    { Event(STATUS_CONTROL_CHANGE, c, v) : c \in Controllers, v \in 0 .. DATA_MAX }
    \cup { Event(STATUS_NOTE_ON, n, v)
           : n \in (PATTERN_NOTE_START .. PATTERN_NOTE_END)
                   \cup {MIDI_NOTE_PLAY, MIDI_NOTE_STOP, MIDI_NOTE_RECORD,
                         CHANNEL_NOTE_START, CHANNEL_NOTE_END,
                         PATTERN_NOTE_END + 1, CHANNEL_NOTE_END + 1},
             v \in {0, 1, DATA_MAX} }
    \cup { Event(STATUS_PROGRAM_CHANGE, p, 0) : p \in Programs }

InitRange ==
    /\ state \in Situations
    /\ currentPattern = -1
    /\ phase = "running"
    /\ delivered = 0
    /\ callback = "OnInit"
    /\ event = NoEvent
    /\ calls = <<>>
    /\ raised = FALSE
    /\ held = { PATTERN_NOTE_START + i : i \in state.active_patterns }
    /\ InitWorkflow

\* the first message
RangeMidiIn ==
    /\ phase = "running"
    /\ delivered = 0
    /\ \E ev \in RangeMessages :
         /\ \E out \in OnMidiIn(state, currentPattern, ev) : Ran("OnMidiIn", ev, out)
         /\ held' = IF Handler(ev) = "HandleNoteOn" /\ InPatternRange(ev.data1)
                    THEN held \cup {ev.data1}
                    ELSE IF Handler(ev) = "HandleNoteOff"
                    THEN held \ {ev.data1}
                    ELSE held
    /\ delivered' = 1
    /\ UNCHANGED phase

\* the key that went down goes up: the Note Off of the note of the Note On
RangeNoteOff ==
    /\ phase = "running"
    /\ delivered = 1
    /\ callback = "OnMidiIn" /\ Handler(event) = "HandleNoteOn"
    /\ LET ev == Event(STATUS_NOTE_OFF, event.data1, 0)
       IN  /\ \E out \in OnMidiIn(state, currentPattern, ev) : Ran("OnMidiIn", ev, out)
           /\ held' = held \ {ev.data1}
    /\ delivered' = 2
    /\ UNCHANGED phase

\* the message is delivered a second time, the surface answering as it likes
RangeRepeat ==
    /\ phase = "running"
    /\ delivered = 1
    /\ callback = "OnMidiIn"
    /\ \E out \in OnMidiIn(state, currentPattern, event) : Ran("OnMidiIn", event, out)
    /\ held' = IF Handler(event) = "HandleNoteOn" /\ InPatternRange(event.data1)
               THEN held \cup {event.data1}
               ELSE IF Handler(event) = "HandleNoteOff"
               THEN held \ {event.data1}
               ELSE held
    /\ delivered' = 2
    /\ UNCHANGED phase

NextRange == RangeMidiIn \/ RangeNoteOff \/ RangeRepeat

SpecRange == InitRange /\ [][NextRange]_vars

\* ------------------------------------------------------------------------
\* The workflow: WorkflowTool.run on the state file, and start, start_async
\* and stop on one WorkflowOrchestrator. A start_async call gives up control
\* at `await self.agent.arun(task)`; a start call keeps the thread until it
\* returns, the agent's tools (WorkflowTool among them) running inside it
\* ------------------------------------------------------------------------
InProgress(c) == pc[c] \in {"start", "start_async"}
InStart == \E c \in OrchestratorCalls : pc[c] = "start"

\* WorkflowTool.run(text), from anywhere
WorkflowToolRun ==
    /\ \E text \in ActionJsons :
         \E out \in run(state_file, text) :
             /\ state_file' = out.file
             /\ tool_result' = out.result
             /\ action_json' = text
             /\ applied' = IF /\ out.result.success
                              /\ json_loads(text).action
                                     \in {"start", "stop", "pause", "resume"}
                           THEN json_loads(text).action
                           ELSE applied
    /\ operation' = "run"
    /\ UNCHANGED <<is_running, pc, stop_result>>
    /\ UNCHANGED engineVars

\* start(prompt) up to self.agent.run(task)
StartCall ==
    /\ ~InStart
    /\ \E c \in OrchestratorCalls :
         /\ pc[c] = "ready"
         /\ pc' = [pc EXCEPT ![c] = "start"]
    /\ is_running' = TRUE
    /\ operation' = "start"
    /\ UNCHANGED <<state_file, action_json, tool_result, applied, stop_result>>
    /\ UNCHANGED engineVars

\* start_async(prompt) up to await self.agent.arun(task)
StartAsyncCall ==
    /\ ~InStart
    /\ \E c \in OrchestratorCalls :
         /\ pc[c] = "ready"
         /\ pc' = [pc EXCEPT ![c] = "start_async"]
    /\ is_running' = TRUE
    /\ operation' = "start_async"
    /\ UNCHANGED <<state_file, action_json, tool_result, applied, stop_result>>
    /\ UNCHANGED engineVars

\* the agent returns or raises: return / except, then finally
StartReturn ==
    /\ \E c \in OrchestratorCalls :
         /\ pc[c] = "start"
         /\ \E status \in {"completed", "failed"} : pc' = [pc EXCEPT ![c] = status]
    /\ is_running' = FALSE
    /\ operation' = "return"
    /\ UNCHANGED <<state_file, action_json, tool_result, applied, stop_result>>
    /\ UNCHANGED engineVars

StartAsyncReturn ==
    /\ ~InStart
    /\ \E c \in OrchestratorCalls :
         /\ pc[c] = "start_async"
         /\ \E status \in {"completed", "failed"} : pc' = [pc EXCEPT ![c] = status]
    /\ is_running' = FALSE
    /\ operation' = "return"
    /\ UNCHANGED <<state_file, action_json, tool_result, applied, stop_result>>
    /\ UNCHANGED engineVars

\* stop()
Stop ==
    /\ ~InStart
    /\ IF is_running
       THEN is_running' = FALSE /\ stop_result' = "True"
       ELSE is_running' = FALSE /\ stop_result' = "False"
    /\ operation' = "stop"
    /\ UNCHANGED <<state_file, action_json, tool_result, applied, pc>>
    /\ UNCHANGED engineVars

InitWorkflowSpec ==
    /\ state = AutomationState
    /\ currentPattern = -1
    /\ phase = "loaded"
    /\ delivered = 0
    /\ callback = "none"
    /\ event = NoEvent
    /\ calls = <<>>
    /\ raised = FALSE
    /\ held = {}
    /\ InitWorkflow

NextWorkflow ==
    \/ WorkflowToolRun
    \/ StartCall \/ StartReturn
    \/ StartAsyncCall \/ StartAsyncReturn
    \/ Stop

SpecWorkflow == InitWorkflowSpec /\ [][NextWorkflow]_vars

\* ------------------------------------------------------------------------
\* Vocabulary of the properties
\* ------------------------------------------------------------------------
\* the first and the last status byte of every high nibble other than
\* 0x8, 0x9, 0xB and 0xC
OtherStatus ==
    { n * 16 + k : n \in { m \in 0 .. 15 : m * 16 \notin KnownStatus }, k \in {0, 15} }
\* the first and the last note of every range the note handlers tell apart
BoundaryNotes ==
    { 0, PATTERN_NOTE_START - 1, PATTERN_NOTE_START, PATTERN_NOTE_END,
      PATTERN_NOTE_END + 1, MIDI_NOTE_PLAY - 1, MIDI_NOTE_PLAY, MIDI_NOTE_STOP,
      MIDI_NOTE_RECORD, MIDI_NOTE_RECORD + 1, CHANNEL_NOTE_START,
      CHANNEL_NOTE_END, CHANNEL_NOTE_END + 1, CC_SCALE }
HighNibble(status) == (status \div 16) * 16
PatternIndex(note) == note - PATTERN_NOTE_START
Called(log, op) == \E i \in DOMAIN log : log[i].op = op
Selected(log, index) == \E i \in DOMAIN log : log[i] = SelectPattern(index)

\* the typed event of the last callback, as OnMidiIn dispatched it
IsNoteOn == callback = "OnMidiIn" /\ Handler(event) = "HandleNoteOn"
IsNoteOff == callback = "OnMidiIn" /\ Handler(event) = "HandleNoteOff"
IsControlChange == callback = "OnMidiIn" /\ Handler(event) = "HandleControlChange"
IsProgramChange == callback = "OnMidiIn" /\ Handler(event) = "HandleProgramChange"

\* ------------------------------------------------------------------------
\* C1: a NoteOn in the pattern range or a ProgramChange whose pattern is not
\* selected (index >= pattern count, or the count cannot be read) leaves every
\* field of the automation state as it was, active_patterns included.
\* ------------------------------------------------------------------------
C1_InvalidIndexLeavesState ==
    [][ ( /\ callback' = "OnMidiIn"
          /\ \/ Handler(event') = "HandleNoteOn" /\ InPatternRange(event'.data1)
             \/ Handler(event') = "HandleProgramChange"
          /\ ~Called(calls', "patterns.currentPattern=") )
        => state' = state ]_vars

\* ------------------------------------------------------------------------
\* C2: active_patterns is exactly the set of indices note-36 of the pattern
\* notes given to a NoteOn (velocity > 0) and not to a NoteOff since, and it
\* holds no index outside 0..15. (NoteOn and NoteOff are the events as
\* OnMidiIn dispatches them; held records them.)
\* ------------------------------------------------------------------------
C2_ActivePatternsAreHeldNotes ==
    /\ state.active_patterns = { PatternIndex(n) : n \in held }
    /\ state.active_patterns \subseteq 0 .. (PATTERN_NOTE_END - PATTERN_NOTE_START)

\* two pattern notes went down (the first selected pattern 0, the second was
\* out of range of the surface or selected nothing) and the first went up
C2_Witness ==
    /\ IsNoteOff /\ event.data1 = PATTERN_NOTE_START
    /\ delivered = 3
    /\ state.active_patterns = {PatternIndex(PATTERN_NOTE_END)}
    /\ currentPattern = 0

\* ------------------------------------------------------------------------
\* C3: no exception leaves the message callback, whatever the triple and
\* whichever surface operation fails.
\* ------------------------------------------------------------------------
C3_NoExceptionLeavesOnMidiIn == callback = "OnMidiIn" => ~raised

\* ------------------------------------------------------------------------
\* C4: after a message whose surface call failed (an exception, or an index
\* the surface does not have), the next message is still dispatched and has
\* its full effect on the surface and on the automation state.
\* ------------------------------------------------------------------------
\* the last callback was a message one of whose surface calls raised, or whose
\* index was not below the count the surface reported
FailedEvent ==
    /\ callback = "OnMidiIn"
    /\ \/ raised
       \/ \E i \in DOMAIN calls : ~calls[i].ok
       \/ /\ calls # <<>>
          /\ calls[Len(calls)].op \in {"patterns.patternCount", "channels.channelCount"}

\* the calls of the step are exactly op(args), which may raise
OneCall(op, args) ==
    /\ Len(calls') = 1
    /\ calls'[1].op = op /\ calls'[1].args = args

\* the calls of the step are the selected-track query and, when it answers a
\* track, op(track, value)
OnSelectedTrack(op, value) ==
    /\ Len(calls') >= 1
    /\ calls'[1].op = "mixer.selectedTrack"
    /\ IF calls'[1].ok /\ calls'[1].ret >= 0
       THEN /\ Len(calls') = 2
            /\ calls'[2].op = op /\ calls'[2].args = <<calls'[1].ret, value>>
       ELSE Len(calls') = 1

\* the calls of the step are the count query and, when index is below the
\* count, the call op(args)
BelowCount(countOp, index, op, args) ==
    /\ Len(calls') >= 1
    /\ calls'[1].op = countOp
    /\ IF calls'[1].ok /\ index < calls'[1].ret
       THEN /\ Len(calls') = 2
            /\ calls'[2].op = op /\ calls'[2].args = args
       ELSE Len(calls') = 1

\* what the step must have done for the message ev
EffectOf(ev) ==
    LET d1 == ev.data1
        d2 == ev.data2
        v == (d2 * Unit) \div CC_SCALE
    IN  IF ev.status = STATUS_NOTE_ON /\ d2 > 0 THEN
            IF d1 = MIDI_NOTE_PLAY THEN
                OneCall("transport.start", <<>>) /\ state' = state
            ELSE IF d1 = MIDI_NOTE_STOP THEN
                OneCall("transport.stop", <<>>) /\ state' = state
            ELSE IF d1 = MIDI_NOTE_RECORD THEN
                /\ calls'[1].op = "transport.getPos"
                /\ calls'[1].ok => Len(calls') = 2 /\ calls'[2].op = "transport.start"
                /\ state' = state
            ELSE IF d1 \in PATTERN_NOTE_START .. PATTERN_NOTE_END THEN
                /\ BelowCount("patterns.patternCount", d1 - PATTERN_NOTE_START,
                              "patterns.currentPattern=", <<d1 - PATTERN_NOTE_START>>)
                /\ Len(calls') = 2 => currentPattern' = d1 - PATTERN_NOTE_START
                /\ state' = [state EXCEPT !.active_patterns =
                                              @ \cup {d1 - PATTERN_NOTE_START}]
            ELSE IF d1 \in CHANNEL_NOTE_START .. CHANNEL_NOTE_END THEN
                /\ BelowCount("channels.channelCount", d1 - CHANNEL_NOTE_START,
                              "channels.setChannelVolume", <<d1 - CHANNEL_NOTE_START, v>>)
                /\ state' = state
            ELSE calls' = <<>> /\ state' = state
        ELSE IF ev.status \in {STATUS_NOTE_ON, STATUS_NOTE_OFF} THEN
            /\ calls' = <<>>
            /\ state' = IF d1 \in PATTERN_NOTE_START .. PATTERN_NOTE_END
                        THEN [state EXCEPT !.active_patterns =
                                               @ \ {d1 - PATTERN_NOTE_START}]
                        ELSE state
        ELSE IF ev.status = STATUS_CONTROL_CHANGE THEN
            IF d1 = MIDI_CC_MASTER_VOLUME THEN
                /\ OneCall("mixer.setTrackVolume", <<0, v>>)
                /\ state' = IF calls'[1].ok
                            THEN [state EXCEPT !.last_mixer_values = DictSet(@, 0, v)]
                            ELSE state
            ELSE IF d1 \in {MIDI_CC_TRACK_VOLUME, CC_STANDARD_VOLUME} THEN
                /\ OnSelectedTrack("mixer.setTrackVolume", v)
                /\ state' = IF Len(calls') = 2 /\ calls'[2].ok
                            THEN [state EXCEPT !.last_mixer_values =
                                                   DictSet(@, calls'[1].ret, v)]
                            ELSE state
            ELSE IF d1 \in {MIDI_CC_PAN, CC_STANDARD_PAN} THEN
                /\ OnSelectedTrack("mixer.setTrackPan", v - Half)
                /\ state' = state
            ELSE IF d1 = MIDI_CC_TEMPO THEN
                /\ OneCall("ui.setHintMsg",
                           <<(20 * (TEMPO_BASE * Unit + v * TEMPO_SPAN) + Unit)
                                 \div (2 * Unit)>>)
                /\ state' = IF calls'[1].ok
                            THEN [state EXCEPT !.tempo_last =
                                                   TEMPO_BASE * Unit + v * TEMPO_SPAN]
                            ELSE state
            ELSE IF d1 = CC_SUSTAIN THEN
                /\ calls' = <<>>
                /\ state' = [state EXCEPT !.automation_enabled = (d2 >= SUSTAIN_ON)]
            ELSE calls' = <<>> /\ state' = state
        ELSE IF ev.status = STATUS_PROGRAM_CHANGE THEN
            /\ BelowCount("patterns.patternCount", d1, "patterns.currentPattern=", <<d1>>)
            /\ Len(calls') = 2 => currentPattern' = d1
            /\ state' = state
        ELSE calls' = <<>> /\ state' = state

C7_ClassifiedByHighNibble ==
    [][ (callback' = "OnMidiIn" /\ HighNibble(event'.status) \in KnownStatus)
        => Outcome(state', currentPattern', calls', raised')
             \in OnMidiIn(state, currentPattern,
                          Event(HighNibble(event'.status), event'.data1, event'.data2)) ]_vars

\* ------------------------------------------------------------------------
\* C8: from every state and for every note (the first and the last note of
\* every range the handlers tell apart), the frame (0x90, note, 0) has the
\* outcomes of the frame (0x80, note, v): the same surface calls and the same
\* automation state.
\* ------------------------------------------------------------------------
C8_ZeroVelocityNoteOnIsNoteOff ==
    \A note \in BoundaryNotes :
        LET zero == OnMidiIn(state, currentPattern, Event(STATUS_NOTE_ON, note, 0))
        IN  \A v \in Velocities :
                zero = OnMidiIn(state, currentPattern, Event(STATUS_NOTE_OFF, note, v))

\* a zero-velocity 0x90 of note 36 took pattern 0, selected earlier, out of
\* active_patterns
C8_Witness ==
    /\ callback = "OnMidiIn"
    /\ event = Event(STATUS_NOTE_ON, PATTERN_NOTE_START, 0)
    /\ calls = <<>> /\ ~raised
    /\ currentPattern = 0 /\ state.active_patterns = {15}

\* ------------------------------------------------------------------------
\* C9: a frame whose status is no Note Off, Note On, Control Change or
\* Program Change status (the first and the last byte of every other high
\* nibble) raises nothing, calls nothing on the surface and leaves the
\* automation state as it is.
\* ------------------------------------------------------------------------
C9_UnknownStatusIsInert ==
    /\ \A s \in OtherStatus :
          \A d \in {PATTERN_NOTE_START, MIDI_CC_MASTER_VOLUME} :
              OnMidiIn(state, currentPattern, Event(s, d, CC_SCALE))
                  = { Outcome(state, currentPattern, <<>>, FALSE) }
    /\ (callback = "OnMidiIn" /\ HighNibble(event.status) \notin KnownStatus)
          => calls = <<>> /\ ~raised

\* a 0xF0 frame arrived after two messages that had changed the state
C9_Witness ==
    /\ callback = "OnMidiIn" /\ event.status = 240 /\ delivered = 3
    /\ state.active_patterns # {} /\ ~state.automation_enabled
    /\ calls = <<>> /\ ~raised

\* ------------------------------------------------------------------------
\* C10: whatever bytes 0..255 arrive, every cached track volume is within
\* [0.0, 1.0] and the stored tempo within [20, 300].
\* ------------------------------------------------------------------------
C10_StoredValuesInRange ==
    /\ \A t \in DOMAIN state.last_mixer_values :
          0 <= state.last_mixer_values[t] /\ state.last_mixer_values[t] <= Unit
    /\ TEMPO_BASE * Unit <= state.tempo_last
    /\ state.tempo_last <= (TEMPO_BASE + TEMPO_SPAN) * Unit

\* ------------------------------------------------------------------------
\* C11: for every note in 36..51 and every velocity in 1..127, starting from
\* an empty active_patterns, NoteOn(note, velocity) followed by NoteOff(note)
\* leaves active_patterns empty, whatever the surface answers in between.
\* ------------------------------------------------------------------------
C11_NoteOnThenNoteOffLeavesEmpty ==
    (delivered = 0 /\ state.active_patterns = {}) =>
        \A note \in PATTERN_NOTE_START .. PATTERN_NOTE_END, velocity \in 1 .. DATA_MAX :
            \A on \in OnMidiIn(state, currentPattern,
                                Event(STATUS_NOTE_ON, note, velocity)) :
                /\ on.state.active_patterns = {PatternIndex(note)}
                /\ \A off \in OnMidiIn(on.state, on.currentPattern,
                                        Event(STATUS_NOTE_OFF, note, 0)) :
                       off.state.active_patterns = {}

\* note 51 went down on an engine with no active pattern, selected pattern
\* 15, and went up: no pattern is active
C11_Witness ==
    /\ delivered = 2 /\ IsNoteOff /\ event.data1 = PATTERN_NOTE_END
    /\ currentPattern = PATTERN_NOTE_END - PATTERN_NOTE_START
    /\ held = {} /\ state.active_patterns = {}

\* ------------------------------------------------------------------------
\* C12: a NoteOff of a note in 36..51 leaves active_patterns equal to its
\* previous value minus {note - 36}, whatever automation_enabled is; when the
\* entry is absent the set is unchanged. It raises nothing, calls nothing on
\* the surface and changes no other field.
\* ------------------------------------------------------------------------
C12_NoteOffRemovesEntry ==
    [][ ( /\ callback' = "OnMidiIn"
          /\ Handler(event') = "HandleNoteOff"
          /\ InPatternRange(event'.data1) )
        => /\ state' = [state EXCEPT !.active_patterns =
                                         @ \ {PatternIndex(event'.data1)}]
           /\ (PatternIndex(event'.data1) \notin state.active_patterns => state' = state)
           /\ ~raised' /\ calls' = <<>> ]_vars

\* with automation switched off, the Note Off of note 36 was the third
\* message and left no pattern active
C12_Witness ==
    /\ IsNoteOff /\ event = Event(STATUS_NOTE_OFF, PATTERN_NOTE_START, 100)
    /\ delivered = 3 /\ ~state.automation_enabled
    /\ currentPattern = 0 /\ state.active_patterns = {} /\ held = {}

\* ------------------------------------------------------------------------
\* C13: ControlChange(64, v) sets automation_enabled to true exactly when
\* v >= 64, for every v in 0..127 and whatever the flag was before; it calls
\* nothing on the surface and changes nothing else.
\* ------------------------------------------------------------------------
C13_SustainSetsAutomationEnabled ==
    /\ delivered = 0 =>
          \A v \in 0 .. 127 :
              OnMidiIn(state, currentPattern, Event(STATUS_CONTROL_CHANGE, 64, v))
                  = { Outcome([state EXCEPT !.automation_enabled = (v >= 64)],
                              currentPattern, <<>>, FALSE) }
    /\ (IsControlChange /\ event.data1 = 64)
          => /\ state.automation_enabled = (event.data2 >= 64)
             /\ calls = <<>> /\ ~raised

\* ControlChange(64, 63) reached an engine and automation is off
C13_Witness ==
    /\ delivered = 1 /\ IsControlChange
    /\ event = Event(STATUS_CONTROL_CHANGE, 64, 63)
    /\ ~state.automation_enabled

\* ------------------------------------------------------------------------
\* C14: the tempo controller (CC 4) with value v in 0..127 shows the hint
\* 20 + (v/127)*280 BPM (to one decimal) and, the hint shown, stores that
\* tempo as the last tempo: v = 0 gives 20.0, v = 127 gives 300.0, and the
\* tempo is strictly increasing in v over 0..127.
\* ------------------------------------------------------------------------
\* 20 + (v/127)*280 in fixed-point units, and to the nearest tenth of a BPM
TempoOf(v) == ((20 * 127 + v * 280) * Unit) \div 127
TempoTenthsOf(v) == (2 * (20 * 127 + v * 280) * 10 + 127) \div (2 * 127)

C14_TempoMapping ==
    /\ delivered = 0 =>
          /\ tempo(0) = 20 * Unit /\ format_1f(tempo(0)) = 200
          /\ tempo(127) = 300 * Unit /\ format_1f(tempo(127)) = 3000
          /\ \A v \in 0 .. 126 :
                /\ tempo(v) < tempo(v + 1)
                /\ format_1f(tempo(v)) < format_1f(tempo(v + 1))
    /\ (IsControlChange /\ event.data1 = 4 /\ event.data2 \in 0 .. 127)
          => /\ Len(calls) = 1
             /\ calls[1].op = "ui.setHintMsg"
             /\ calls[1].args = <<TempoTenthsOf(event.data2)>>
             /\ calls[1].ok => state.tempo_last = TempoOf(event.data2)
             /\ ~raised

\* ControlChange(4, 127) showed the hint 300.0 BPM and 300 is the last tempo
C14_Witness ==
    /\ delivered = 1 /\ IsControlChange
    /\ event = Event(STATUS_CONTROL_CHANGE, 4, 127)
    /\ calls = <<Returned("ui.setHintMsg", <<3000>>, 0)>>
    /\ state.tempo_last = 300 * Unit

\* ------------------------------------------------------------------------
\* C15: ControlChange(7, v) with a track selected sets that track's volume
\* to v/127: v = 0 gives 0.0, v = 127 gives 1.0, and the volume is
\* non-decreasing in v over 0..127.
\* ------------------------------------------------------------------------
\* v/127 in fixed-point units
VolumeOf(v) == (v * Unit) \div 127

C15_StandardVolumeMapping ==
    /\ delivered = 0 =>
          /\ normalized(0) = 0 /\ normalized(127) = Unit
          /\ \A v \in 0 .. 127 : normalized(v) = VolumeOf(v) /\ (v * Unit) % 127 = 0
          /\ \A v \in 0 .. 126 : normalized(v) <= normalized(v + 1)
    /\ ( /\ IsControlChange /\ event.data1 = 7 /\ event.data2 \in 0 .. 127
         /\ calls # <<>> /\ calls[1].ok /\ calls[1].ret >= 0 )
          => /\ calls[1].op = "mixer.selectedTrack"
             /\ Len(calls) = 2
             /\ calls[2].op = "mixer.setTrackVolume"
             /\ calls[2].args = <<calls[1].ret, VolumeOf(event.data2)>>
             /\ calls[2].ok =>
                   /\ calls[1].ret \in DOMAIN state.last_mixer_values
                   /\ state.last_mixer_values[calls[1].ret] = VolumeOf(event.data2)
    /\ (IsControlChange /\ event.data1 = 7) => calls # <<>> /\ ~raised

\* ControlChange(7, 127) with track 1 selected set the volume of track 1 to 1.0
C15_Witness ==
    /\ delivered = 1 /\ IsControlChange
    /\ event = Event(STATUS_CONTROL_CHANGE, 7, 127)
    /\ calls = << Returned("mixer.selectedTrack", <<>>, 1),
                  Returned("mixer.setTrackVolume", <<1, Unit>>, 0) >>
    /\ 1 \in DOMAIN state.last_mixer_values /\ state.last_mixer_values[1] = Unit

\* ------------------------------------------------------------------------
\* C16: the pan controller (CC 3) with value v in 0..127 and a selected track
\* t >= 0 issues set_track_pan(t, v/127 - 0.5); the pan passed to the surface
\* is within [-0.5, 0.5], v = 0 giving -0.5 and v = 127 giving 0.5.
\* ------------------------------------------------------------------------
\* v/127 - 0.5 in fixed-point units
PanOf(v) == (v * Unit) \div 127 - Unit \div 2

C16_PanMapping ==
    /\ delivered = 0 =>
          /\ pan_value(0) = -(Unit \div 2) /\ pan_value(127) = Unit \div 2
          /\ 2 * (Unit \div 2) = Unit
          /\ \A v \in 0 .. 127 :
                /\ pan_value(v) = PanOf(v)
                /\ -(Unit \div 2) <= pan_value(v) /\ pan_value(v) <= Unit \div 2
    /\ ( /\ IsControlChange /\ event.data1 = 3 /\ event.data2 \in 0 .. 127
         /\ calls # <<>> /\ calls[1].ok /\ calls[1].ret >= 0 )
          => /\ calls[1].op = "mixer.selectedTrack"
             /\ Len(calls) = 2
             /\ calls[2].op = "mixer.setTrackPan"
             /\ calls[2].args = <<calls[1].ret, PanOf(event.data2)>>
             /\ -(Unit \div 2) <= calls[2].args[2] /\ calls[2].args[2] <= Unit \div 2
    /\ (IsControlChange /\ event.data1 = 3) => calls # <<>> /\ ~raised

\* ControlChange(3, 0) with track 0 selected set the pan of track 0 to -0.5
C16_Witness ==
    /\ delivered = 1 /\ IsControlChange
    /\ event = Event(STATUS_CONTROL_CHANGE, 3, 0)
    /\ calls = << Returned("mixer.selectedTrack", <<>>, 0),
                  Returned("mixer.setTrackPan", <<0, -(Unit \div 2)>>, 0) >>

\* ------------------------------------------------------------------------
\* C17: the standard controllers are aliases: for every value v and from
\* every state, whatever the surface answers, ControlChange(7, v) makes the
\* surface calls and has the state effect of ControlChange(2, v), and
\* ControlChange(10, v) those of ControlChange(3, v).
\* ------------------------------------------------------------------------
SameOutcomes(c1, c2, v) ==
    OnMidiIn(state, currentPattern, Event(STATUS_CONTROL_CHANGE, c1, v))
        = OnMidiIn(state, currentPattern, Event(STATUS_CONTROL_CHANGE, c2, v))

C17_StandardControllersAreAliases ==
    \A v \in (IF delivered = 0 THEN 0 .. 127 ELSE {0, 64, 127}) :
        SameOutcomes(7, 2, v) /\ SameOutcomes(10, 3, v)

\* ControlChange(10, 127) with track 1 selected set the pan of track 1 to 0.5
C17_Witness ==
    /\ delivered = 1 /\ IsControlChange
    /\ event = Event(STATUS_CONTROL_CHANGE, 10, 127)
    /\ calls = << Returned("mixer.selectedTrack", <<>>, 1),
                  Returned("mixer.setTrackPan", <<1, Unit \div 2>>, 0) >>

\* ------------------------------------------------------------------------
\* C18: on a volume Control Change (CC 1 for master track 0; CC 2 or CC 7 for
\* the selected track) the cached volume of that track is set to value/127
\* only after set_track_volume succeeded; if set_track_volume or the
\* selected-track query fails, the volume cache keeps its previous contents.
\* ------------------------------------------------------------------------
C18_VolumeCachedAfterSuccess ==
    [][ ( /\ callback' = "OnMidiIn"
          /\ Handler(event') = "HandleControlChange"
          /\ event'.data1 \in {1, 2, 7} )
        => LET n == Len(calls')
               volumeSet == /\ n > 0
                            /\ calls'[n].op = "mixer.setTrackVolume"
                            /\ calls'[n].ok
           IN  /\ volumeSet =>
                     /\ \A i \in 1 .. n : calls'[i].ok
                     /\ event'.data1 = 1 => calls'[n].args[1] = 0
                     /\ event'.data1 # 1 =>
                           calls'[1].op = "mixer.selectedTrack"
                           /\ calls'[n].args[1] = calls'[1].ret
                     /\ state'.last_mixer_values =
                           DictSet(state.last_mixer_values, calls'[n].args[1],
                                   VolumeOf(event'.data2))
               /\ ~volumeSet => state'.last_mixer_values = state.last_mixer_values
               /\ (\E i \in 1 .. n : ~calls'[i].ok) =>
                     state'.last_mixer_values = state.last_mixer_values
               /\ ~raised' ]_vars

\* the master volume was cached as 1.0; then ControlChange(1, 0) arrived, the
\* surface refused set_track_volume(0, 0.0) and the cache still holds 1.0
C18_Witness ==
    /\ IsControlChange /\ event = Event(STATUS_CONTROL_CHANGE, 1, 0)
    /\ calls = << Raised("mixer.setTrackVolume", <<0, 0>>) >>
    /\ 0 \in DOMAIN state.last_mixer_values /\ state.last_mixer_values[0] = Unit

\* ------------------------------------------------------------------------
\* C19: the keys of the track-volume cache are only track 0, written by CC 1,
\* and the tracks that were the surface's selected track (>= 0) at the moment
\* a CC 2 / CC 7 was processed; when no track is selected (selected index
\* < 0) a volume CC creates no entry and calls no set_track_volume.
\* ------------------------------------------------------------------------
C19_CacheKeysAreAddressedTracks ==
    [][ LET added == (DOMAIN state'.last_mixer_values) \ (DOMAIN state.last_mixer_values)
            isCC == callback' = "OnMidiIn" /\ Handler(event') = "HandleControlChange"
            selected == /\ calls' # <<>>
                        /\ calls'[1].op = "mixer.selectedTrack"
                        /\ calls'[1].ok
        IN  /\ added # {} =>
                  /\ isCC
                  /\ \/ event'.data1 = 1 /\ added = {0}
                     \/ /\ event'.data1 \in {2, 7}
                        /\ selected /\ calls'[1].ret >= 0
                        /\ added = {calls'[1].ret}
            /\ (isCC /\ event'.data1 \in {2, 7} /\ selected /\ calls'[1].ret < 0) =>
                  /\ ~Called(calls', "mixer.setTrackVolume")
                  /\ state'.last_mixer_values = state.last_mixer_values ]_vars

\* track 1 has a cached volume; then ControlChange(2, 127) arrived with no
\* track selected, and the cache has the key 1 only
C19_Witness ==
    /\ IsControlChange /\ event = Event(STATUS_CONTROL_CHANGE, 2, 127)
    /\ calls = << Returned("mixer.selectedTrack", <<>>, -1) >>
    /\ DOMAIN state.last_mixer_values = {1}

\* ------------------------------------------------------------------------
\* C20: the feedback callbacks (OnRefresh, OnIdle) perform no writes:
\* interleaved anywhere in any message sequence, a tick leaves every field of
\* the automation state unchanged and invokes only read operations of the
\* surface (get volume, get pan, selected track), never a transport,
\* pattern, volume or pan setter.
\* ------------------------------------------------------------------------
ReadOperations == {"mixer.getTrackVolume", "mixer.getTrackPan", "mixer.selectedTrack"}

C20_TicksPerformNoWrites ==
    [][ callback' \in {"OnRefresh", "OnIdle"}
        => /\ state' = state
           /\ currentPattern' = currentPattern
           /\ \A i \in DOMAIN calls' : calls'[i].op \in ReadOperations
           /\ callback' = "OnIdle" => calls' = <<>>
           /\ ~raised' ]_vars

\* after two messages that changed the automation state, OnRefresh read the
\* master volume, the selected track and that track's volume and pan
C20_Witness ==
    /\ callback = "OnRefresh" /\ delivered = 3
    /\ Len(calls) = 4 /\ \A i \in 1 .. 4 : calls[i].ok
    /\ state.active_patterns # {} /\ DOMAIN state.last_mixer_values # {}

\* ------------------------------------------------------------------------
\* C21: the feedback tick tolerates an unavailable surface: if a surface read
\* of OnRefresh fails (master volume, selected track, track volume or pan),
\* the rest of the tick is skipped, no exception leaves the callback, and the
\* following message or tick is processed normally.
\* ------------------------------------------------------------------------
\* the last callback was an OnRefresh one of whose reads failed
FailedTick == callback = "OnRefresh" /\ \E i \in DOMAIN calls : ~calls[i].ok

C21_TickToleratesUnavailableSurface ==
    [][ /\ callback' = "OnRefresh" =>
              /\ ~raised'
              /\ state' = state
              /\ \A i \in DOMAIN calls' : ~calls'[i].ok => i = Len(calls')
        /\ (FailedTick /\ callback' = "OnMidiIn") => EffectOf(event')
        /\ (FailedTick /\ callback' = "OnRefresh") =>
              /\ calls' # <<>>
              /\ calls'[1].op = "mixer.getTrackVolume" /\ calls'[1].args = <<0>>
              /\ calls'[1].ok => Len(calls') >= 2 /\ calls'[2].op = "mixer.selectedTrack"
        /\ (FailedTick /\ callback' = "OnIdle") => calls' = <<>> /\ ~raised' ]_vars

\* after a pattern Note On, a tick read the master volume and the selected
\* track; the volume of that track could not be read: the tick ended there
\* and raised nothing
C21_Witness ==
    /\ callback = "OnRefresh" /\ delivered = 2
    /\ calls = << Returned("mixer.getTrackVolume", <<0>>, Unit),
                  Returned("mixer.selectedTrack", <<>>, 1),
                  Raised("mixer.getTrackVolume", <<1>>) >>
    /\ ~raised /\ state.active_patterns = {0}

ChannelNoteCalls(note, velocity, log) ==
    /\ log # <<>>
    /\ log[1].op = "channels.channelCount" /\ log[1].args = <<>>
    /\ IF log[1].ok /\ note - 64 < log[1].ret
       THEN /\ Len(log) = 2
            /\ log[2].op = "channels.setChannelVolume"
            /\ log[2].args = <<note - 64, VolumeOf(velocity)>>
       ELSE Len(log) = 1

Ops(log) == { log[i].op : i \in DOMAIN log }

TransportCalls(status, note, velocity, log) ==
    IF status = STATUS_NOTE_ON /\ velocity > 0 /\ note = 60
    THEN Len(log) = 1 /\ log[1].op = "transport.start"
    ELSE IF status = STATUS_NOTE_ON /\ velocity > 0 /\ note = 61
    THEN Len(log) = 1 /\ log[1].op = "transport.stop"
    ELSE IF status = STATUS_NOTE_ON /\ velocity > 0 /\ note = 62
    THEN /\ log # <<>> /\ log[1].op = "transport.getPos"
         /\ log[1].ok => Len(log) = 2 /\ log[2].op = "transport.start"
         /\ "transport.stop" \notin Ops(log)
    ELSE Ops(log) \cap {"transport.start", "transport.stop"} = {}

MappedControllers == {1, 2, 3, 4, 7, 10, 64}
MappedNotes == {60, 61, 62} \cup (36 .. 51) \cup (64 .. 79)

\* the message is not covered by the mapping
Uncovered(status, d1, d2) ==
    \/ status = STATUS_CONTROL_CHANGE /\ d1 \notin MappedControllers
    \/ status = STATUS_NOTE_ON /\ d2 > 0 /\ d1 \notin MappedNotes
    \/ status = STATUS_NOTE_ON /\ d2 = 0 /\ d1 \notin 36 .. 51
    \/ status = STATUS_NOTE_OFF /\ d1 \notin 36 .. 51

C25_SameMessageTwiceIsIdempotent ==
    [][ ( /\ callback = "OnMidiIn" /\ callback' = "OnMidiIn"
          /\ event' = event
          /\ calls' = calls )
        => state' = state ]_vars

\* ControlChange(2, 127) was delivered twice with track 1 selected and the
\* volume set both times: the cache holds 1.0 for track 1
C25_Witness ==
    /\ delivered = 2 /\ IsControlChange
    /\ event = Event(STATUS_CONTROL_CHANGE, 2, 127)
    /\ calls = << Returned("mixer.selectedTrack", <<>>, 1),
                  Returned("mixer.setTrackVolume", <<1, Unit>>, 0) >>
    /\ 1 \in DOMAIN state.last_mixer_values /\ state.last_mixer_values[1] = Unit

\* ------------------------------------------------------------------------
\* C26: automation state does not persist across engine shutdown: after
\* OnDeinit no value set by earlier messages survives (active_patterns and
\* the volume caches are empty, automation_enabled and the last tempo are
\* back at their defaults, true and 120), so a following OnInit starts from
\* the initial state.
\* ------------------------------------------------------------------------
C26_NothingSurvivesDeinit ==
    /\ phase = "unloaded" => state = AutomationState
    /\ callback = "OnInit" => state = AutomationState

\* ------------------------------------------------------------------------
\* C27: the automation_enabled flag gates nothing: two runs that differ only
\* in the value of automation_enabled issue the same surface calls and
\* produce the same active_patterns, volume cache and tempo; the flag is
\* written by CC 64 and read by no handler.
\* ------------------------------------------------------------------------
\* an outcome without the flag
WithoutFlag(out) == [out EXCEPT !.state.automation_enabled = TRUE]

\* the state with the flag set to enabled
Flagged(enabled) == [state EXCEPT !.automation_enabled = enabled]

\* one message of every branch of the handlers
BranchMessages ==
    { Event(STATUS_NOTE_ON, n, 100)
      : n \in {MIDI_NOTE_PLAY, MIDI_NOTE_STOP, MIDI_NOTE_RECORD,
               PATTERN_NOTE_START, CHANNEL_NOTE_START} }
    \cup { Event(STATUS_NOTE_OFF, PATTERN_NOTE_START, 0),
           Event(STATUS_NOTE_OFF, PATTERN_NOTE_END, 0),
           Event(STATUS_PROGRAM_CHANGE, 5, 0) }
    \cup { Event(STATUS_CONTROL_CHANGE, c, 100) : c \in Controllers }

\* from the state with the flag on and from the state with the flag off, the
\* message has the same outcomes but for the flag, and the same flag unless
\* it is left as it was
SameButForFlag(ev) ==
    /\ { WithoutFlag(out) : out \in OnMidiIn(Flagged(TRUE), currentPattern, ev) }
         = { WithoutFlag(out) : out \in OnMidiIn(Flagged(FALSE), currentPattern, ev) }
    /\ \A enabled \in BOOLEAN :
          \A out \in OnMidiIn(Flagged(enabled), currentPattern, ev) :
              \/ out.state.automation_enabled = enabled
              \/ /\ ev.status = STATUS_CONTROL_CHANGE /\ ev.data1 = 64
                 /\ out.state.automation_enabled = (ev.data2 >= 64)

C27_FlagGatesNothing ==
    /\ \A ev \in (IF delivered = 0 THEN RangeMessages \cup BranchMessages
                   ELSE IF delivered = 1 THEN BranchMessages ELSE {}) :
          SameButForFlag(ev)
    /\ \A tick \in {"OnRefresh", "OnIdle", "OnInit", "OnDeinit"} :
          LET Run(st) == IF tick = "OnRefresh" THEN OnRefresh(st, currentPattern)
                         ELSE IF tick = "OnIdle" THEN OnIdle(st, currentPattern)
                         ELSE IF tick = "OnInit" THEN OnInit(st, currentPattern)
                         ELSE OnDeinit(st, currentPattern)
          IN  { WithoutFlag(out) : out \in Run(Flagged(TRUE)) }
                  = { WithoutFlag(out) : out \in Run(Flagged(FALSE)) }

\* with automation switched off, ControlChange(1, 127) set the master volume
\* and cached it as it does with automation on
C27_Witness ==
    /\ delivered = 1 /\ IsControlChange
    /\ event = Event(STATUS_CONTROL_CHANGE, 1, 127)
    /\ ~state.automation_enabled
    /\ calls = << Returned("mixer.setTrackVolume", <<0, Unit>>, 0) >>
    /\ 0 \in DOMAIN state.last_mixer_values /\ state.last_mixer_values[0] = Unit

\* ------------------------------------------------------------------------
\* C28: of the messages, only pattern-range notes, the volume controllers
\* (1, 2, 7), the tempo controller (4) and controller 64 ever modify the
\* automation state: ProgramChange, the pan controllers (3, 10), the
\* transport notes (60, 61, 62) and the channel-volume notes 64..79 leave
\* every field unchanged even when their surface call succeeds, so
\* recording_enabled is false and the channel-value cache is empty in every
\* reachable state.
\* ------------------------------------------------------------------------
\* the message is one of those that may modify the automation state
Modifying(ev) ==
    \/ ev.status \in {STATUS_NOTE_ON, STATUS_NOTE_OFF} /\ ev.data1 \in 36 .. 51
    \/ ev.status = STATUS_CONTROL_CHANGE /\ ev.data1 \in {1, 2, 7, 4, 64}

StatusAfter(action) ==
    CASE action = "none" -> "idle"
      [] action \in {"start", "resume"} -> "running"
      [] action = "stop" -> "stopped"
      [] action = "pause" -> "paused"

\* the action a request string asks for
Asks(text, action) == text = "{\"action\": \"" \o action \o "\"}"

C29_StatusFollowsLastAppliedAction ==
    /\ [](_load_state(state_file).status = StatusAfter(applied))
    /\ [][ operation' = "run" =>
              /\ \A a \in {"start", "stop", "pause", "resume"} :
                    Asks(action_json', a) =>
                        IF tool_result'.success
                        THEN /\ _load_state(state_file').status = StatusAfter(a)
                             /\ tool_result'.state = _load_state(state_file')
                        ELSE state_file' = state_file
              /\ Asks(action_json', "status") =>
                    /\ _load_state(state_file') = _load_state(state_file)
                    /\ tool_result'.success =>
                          tool_result'.state = _load_state(state_file)
              /\ (\/ Asks(action_json', "restart") \/ Asks(action_json', "STOP")
                  \/ action_json' = "{}")
                    => ~tool_result'.success /\ state_file' = state_file
              /\ ~tool_result'.success => state_file' = state_file ]_vars

\* after a pause was applied, a 'status' action returned the stored state,
\* status 'paused'
C29_Witness ==
    /\ operation = "run" /\ Asks(action_json, "status")
    /\ tool_result.success /\ tool_result.state.status = "paused"
    /\ applied = "pause"
    /\ state_file = << WorkflowState("paused", "Workflow paused") >>

\* ------------------------------------------------------------------------
\* C30: WorkflowOrchestrator.is_running is true exactly while a start or
\* start_async call is in progress on that orchestrator: it is false after
\* every return, stays true while any overlapping start_async call is still
\* running, and stop() returns success=true only when a run is in progress.
\* ------------------------------------------------------------------------
C30_IsRunningExactlyWhileInProgress ==
    /\ is_running = (\E c \in OrchestratorCalls : InProgress(c))
    /\ (operation = "stop" /\ stop_result = "True")
          => \E c \in OrchestratorCalls : InProgress(c)

====
